---- MODULE Spec2Model ----
(***************************************************************************)
(* Model of the registration and build orchestration endpoints of          *)
(* src/server.js: POST /api/register-device, POST /api/trigger-build and   *)
(* GET /api/build-status/:udid, with the two process-wide collections      *)
(* registeredDevices (a Set) and pendingBuilds (a Map), and of             *)
(* GET /manifest.plist.                                                    *)
(*                                                                         *)
(* Node runs the handlers on one event loop: a handler runs uninterrupted  *)
(* from its start to its first `await execAsync(...)` (or to its return),  *)
(* and again from the settlement of that promise to its return.  Each of   *)
(* these two stretches is one action; the child process is the             *)
(* environment and settles the promise with one of the outcomes of         *)
(* child_process.exec.                                                     *)
(*                                                                         *)
(* Text is modelled as a sequence of atoms (an atom is an indivisible      *)
(* chunk of text: a character of an identifier, or a word); concatenation  *)
(* is \o and String.prototype.includes is contiguous-subsequence search.   *)
(***************************************************************************)
EXTENDS Integers, Sequences, FiniteSets, TLC

(* ------------------------------ bounds -------------------------------- *)

\* Number of HTTP requests a behaviour handles (request slots 1..MaxReq).
MaxReq == 2

\* The wall clock read by new Date() advances up to MaxNow.
MaxNow == 1

(* --------------------------- program constants ------------------------ *)

RegisterTimeout == 30000

TriggerTimeout == 60000

MaxBuffer == 1024 * 1024 * 10

SliceLen == 8

(* ------------------------------- text --------------------------------- *)

\* JavaScript `undefined` (a field missing from the JSON body or from a
\* response); the atom is reserved, no text contains it.
Undefined == << "<undefined>" >>

\* !x for a value that is undefined or a string.
Falsy(x) == x = Undefined \/ x = << >>

\* a || b for values that are undefined or strings.
OrElse(a, b) == IF Falsy(a) THEN b ELSE a

\* s.includes(sub)
Includes(s, sub) ==
    \E i \in 0..(Len(s) - Len(sub)) :
        \A j \in 1..Len(sub) : s[i + j] = sub[j]

\* s.slice(-n)
SliceLast(s, n) ==
    IF Len(s) <= n THEN s ELSE SubSeq(s, Len(s) - n + 1, Len(s))

AlreadyRegisteredText == << "already", "registered" >>

AlreadyExistsText == << "already", "exists" >>

(* ------------------------------ inputs -------------------------------- *)

U1 == << "A", "1" >>

U2 == << "0", "0", "0", "0", "8", "0", "3", "0", "E" >>

\* Identifiers that pass validation.
Udids == { U1, U2 }

\* The udid field of a request body: missing, empty, or an identifier.
UdidInputs == { Undefined, << >> } \cup Udids

\* The deviceName field of a register body.
NameInputs == { Undefined, << "My", "iPad" >>, AlreadyExistsText }

Req == 1..MaxReq

(* ------------------------- child_process.exec ------------------------- *)

\* How a child process started by exec(command, options) can end: exit
\* code 0; a non-zero exit code; killed by the timeout timer; killed because
\* its output outgrew maxBuffer.  stdout and stderr are what was captured.
ExecOutcome(kind, stdout, stderr) ==
    [kind |-> kind, stdout |-> stdout, stderr |-> stderr]

\* What the enrollment tool (eas-cli device:create) can do.
RegisterToolRuns ==
    { ExecOutcome("ok", << "Device", "registered", "successfully" >>, << >>),
      ExecOutcome("exit", << >>, << "Error:", "device", "already", "registered" >>),
      ExecOutcome("exit", << >>, << "Error:", "not", "logged", "in" >>),
      ExecOutcome("timeout", << >>, << >>),
      ExecOutcome("maxbuf", << "..." >>, << >>) }

\* What the build tool (eas-cli build --no-wait) can do.
TriggerToolRuns ==
    { ExecOutcome("ok", << "Build", "ID:", "7f3a-22" >>, << >>),
      ExecOutcome("ok", << "queued", "build", "id:", "b2.", "done" >>, << >>),
      ExecOutcome("ok", << "Build", "queued" >>, << >>),
      ExecOutcome("exit", << >>, << "Error:", "not", "logged", "in" >>),
      ExecOutcome("timeout", << >>, << >>) }

\* The outcomes the options allow: the timer exists only for timeout > 0,
\* the output ceiling only for a finite maxBuffer.
ExecOutcomes(runs, options) ==
    { o \in runs :
        /\ (o.kind = "timeout" => options.timeout > 0)
        /\ (o.kind = "maxbuf" => options.maxBuffer > 0) }

\* The Error that exec's callback gets, and that promisify(exec) rejects
\* with, for an outcome other than exit code 0.  For a non-zero exit and for
\* a timeout kill it is `Command failed: ${cmd}\n${stderr}`: the message
\* quotes the whole command line.
ExecError(command, o) ==
    [message |-> IF o.kind = "maxbuf"
                 THEN << "stdout", "maxBuffer", "length", "exceeded" >>
                 ELSE << "Command", "failed:" >> \o command \o << "\n" >> \o o.stderr,
     stderr  |-> o.stderr,
     killed  |-> o.kind \in { "timeout", "maxbuf" }]

(* ------------------------ handler computations ------------------------ *)

\* MissingUdid with a test for the missing field only (`udid === undefined`).
MissingUdid_UndefinedOnly(udid) == udid = Undefined

\* `!udid` of both POST handlers.
MissingUdid(udid) == Falsy(udid)

\* deviceName || `iPhone-${udid.slice(-8)}`
DeviceNameSafe(udid, deviceName) ==
    OrElse(deviceName, << "iPhone-" >> \o SliceLast(udid, SliceLen))

AppDir == << "/app" >>

\* The enrollment command line.
RegisterCommand(udid, deviceName) ==
    << "cd", "\"" >> \o AppDir \o << "\"", "&&", "npx", "eas-cli", "device:create", "--udid" >>
        \o udid \o << "--name", "\"" >> \o DeviceNameSafe(udid, deviceName)
        \o << "\"", "--non-interactive" >>

\* The build command line.
TriggerCommand ==
    << "cd", "\"" >> \o AppDir \o << "\"", "&&", "npx", "eas-cli", "build", "--platform", "ios",
       "--profile", "ad-hoc", "--non-interactive", "--no-wait" >>

\* The test of the inner catch of register-device.
IsAlreadyRegisteredError(error) ==
    \/ Includes(error.message, AlreadyRegisteredText)
    \/ Includes(error.message, AlreadyExistsText)

\* Case folding of the /i flag, on the atoms the pattern's literal part
\* can match.
Lower(a) ==
    CASE a \in { "Build", "BUILD", "build" } -> "build"
      [] a \in { "ID:", "Id:", "id:" } -> "id:"
      [] OTHER -> a

\* The longest prefix of an atom made of [a-zA-Z0-9-]; "" when the atom
\* starts with another character.
IdPrefix(a) ==
    CASE a = "b2." -> "b2"
      [] a = "(pending)" -> ""
      [] a = "..." -> ""
      [] OTHER -> a

\* BuildIdMatchesAt without the /i flag: the pattern as spelled.
BuildIdMatchesAt_CaseSensitive(s, i) ==
    /\ i + 2 <= Len(s)
    /\ s[i] = "build"
    /\ s[i + 1] = "ID:"
    /\ IdPrefix(s[i + 2]) # ""

\* /build ID: ([a-zA-Z0-9-]+)/i matches at atom i.
BuildIdMatchesAt(s, i) ==
    /\ i + 2 <= Len(s)
    /\ Lower(s[i]) = "build"
    /\ Lower(s[i + 1]) = "id:"
    /\ IdPrefix(s[i + 2]) # ""

\* stdout.match(/build ID: ([a-zA-Z0-9-]+)/i): group 1 of the leftmost
\* match, or Undefined (null) without a match.
BuildIdMatch(s) ==
    IF \E i \in 1..Len(s) : BuildIdMatchesAt(s, i)
    THEN LET i == CHOOSE k \in 1..Len(s) :
                      /\ BuildIdMatchesAt(s, k)
                      /\ \A m \in 1..(k - 1) : ~BuildIdMatchesAt(s, m)
         IN  << IdPrefix(s[i + 2]) >>
    ELSE Undefined

\* buildIdMatch ? buildIdMatch[1] : 'unknown', with the two alternatives of
\* the `||` (the second pattern differs only in case, which /i ignores).
ExtractBuildId(stdout) ==
    LET buildIdMatch == IF BuildIdMatch(stdout) # Undefined
                        THEN BuildIdMatch(stdout)
                        ELSE BuildIdMatch(stdout)
    IN  IF buildIdMatch # Undefined THEN buildIdMatch ELSE << "unknown" >>

\* map.set(key, value)
MapSet(map, key, value) ==
    [k \in (DOMAIN map) \cup { key } |-> IF k = key THEN value ELSE map[k]]

(* ------------------------------- state -------------------------------- *)

VARIABLES
    registeredDevices,  \* const registeredDevices = new Set()
    pendingBuilds,      \* const pendingBuilds = new Map()
    reqs,               \* the requests: where each handler is, and its response
    now                 \* the wall clock read by new Date()

vars == << registeredDevices, pendingBuilds, reqs, now >>

\* A response not sent yet.
NoResp == [status |-> 0, body |-> [f \in {} |-> Undefined]]

\* A request slot no request has used yet.
IdleReq ==
    [pc |-> "idle", kind |-> "none", udid |-> Undefined, command |-> << >>,
     execs |-> 0, outcome |-> ExecOutcome("none", << >>, << >>), resp |-> NoResp,
     file |-> Undefined]

\* A request just received by its handler (kind: which route; udid: the
\* identifier it carries).  command, execs and outcome record the child
\* process the handler starts: its command line, how many it started, and
\* how the child ended; file records what the manifest handler found on disk.
Accepted(kind, udid) ==
    [IdleReq EXCEPT !.pc = "running", !.kind = kind, !.udid = udid]

\* res.status(status).json(body); return
Responded(q, status, body) ==
    [q EXCEPT !.pc = "done", !.resp = [status |-> status, body |-> body]]

\* The handler has called execAsync(command, ...) and is suspended at the
\* await.
Awaiting(q, command) ==
    [q EXCEPT !.pc = "awaitExec", !.command = command, !.execs = @ + 1]

\* Slots are taken in order: slot r is the r-th request received.
CanStart(r) ==
    /\ reqs[r].pc = "idle"
    /\ r > 1 => reqs[r - 1].pc # "idle"

Init ==
    /\ registeredDevices = {}
    /\ pendingBuilds = [u \in {} |-> Undefined]
    /\ reqs = [r \in Req |-> IdleReq]
    /\ now = 0

(* ------------------------ POST /api/register-device ------------------- *)

\* RegisterOptions without a timeout (exec's default, timeout: 0).
RegisterOptions_NoTimeout == [timeout |-> 0, maxBuffer |-> MaxBuffer]

RegisterOptions == [timeout |-> RegisterTimeout, maxBuffer |-> MaxBuffer]

\* RegisterStart without the registeredDevices.has(udid) test.
RegisterStart_NoMembershipCheck(r, udid, deviceName) ==
    /\ CanStart(r)
    /\ LET q == Accepted("register", udid)
       IN  reqs' = [reqs EXCEPT ![r] =
               IF MissingUdid(udid)
               THEN Responded(q, 400,
                        [success |-> FALSE, error |-> "UDID é obrigatório"])
               ELSE Awaiting(q, RegisterCommand(udid, deviceName))]
    /\ UNCHANGED << registeredDevices, pendingBuilds, now >>

\* The handler from its start to `await execAsync` or to an early return.
RegisterStart(r, udid, deviceName) ==
    /\ CanStart(r)
    /\ LET q == Accepted("register", udid)
       IN  reqs' = [reqs EXCEPT ![r] =
               IF MissingUdid(udid)
               THEN Responded(q, 400,
                        [success |-> FALSE, error |-> "UDID é obrigatório"])
               ELSE IF udid \in registeredDevices
               THEN Responded(q, 200,
                        [success |-> TRUE, message |-> "Dispositivo já registrado",
                         alreadyRegistered |-> TRUE, udid |-> udid])
               ELSE Awaiting(q, RegisterCommand(udid, deviceName))]
    /\ UNCHANGED << registeredDevices, pendingBuilds, now >>

\* RegisterSucceeded without registeredDevices.add(udid).
RegisterSucceeded_NoAdd(r, o) ==
    /\ registeredDevices' = registeredDevices
    /\ reqs' = [reqs EXCEPT ![r] =
           Responded([@ EXCEPT !.outcome = o], 200,
               [success |-> TRUE, message |-> "Dispositivo registrado com sucesso",
                udid |-> reqs[r].udid, output |-> o.stdout])]

\* After the await, exit code 0: the rest of the inner try block.
RegisterSucceeded(r, o) ==
    /\ registeredDevices' = registeredDevices \cup { reqs[r].udid }
    /\ reqs' = [reqs EXCEPT ![r] =
           Responded([@ EXCEPT !.outcome = o], 200,
               [success |-> TRUE, message |-> "Dispositivo registrado com sucesso",
                udid |-> reqs[r].udid, output |-> o.stdout])]

\* RegisterFailed that answers the inferred success without
\* registeredDevices.add(udid).
RegisterFailed_NoAdd(r, o) ==
    LET error == ExecError(reqs[r].command, o)
    IN  /\ registeredDevices' = registeredDevices
        /\ reqs' = [reqs EXCEPT ![r] =
               IF IsAlreadyRegisteredError(error)
               THEN Responded([@ EXCEPT !.outcome = o], 200,
                        [success |-> TRUE, message |-> "Dispositivo já estava registrado",
                         udid |-> reqs[r].udid, alreadyRegistered |-> TRUE])
               ELSE Responded([@ EXCEPT !.outcome = o], 500,
                        [success |-> FALSE, error |-> "Erro ao registrar dispositivo",
                         details |-> error.message, stderr |-> error.stderr])]

\* After the await, the promise rejected: the inner catch block.
RegisterFailed(r, o) ==
    LET error == ExecError(reqs[r].command, o)
    IN  IF IsAlreadyRegisteredError(error)
        THEN /\ registeredDevices' = registeredDevices \cup { reqs[r].udid }
             /\ reqs' = [reqs EXCEPT ![r] =
                    Responded([@ EXCEPT !.outcome = o], 200,
                        [success |-> TRUE, message |-> "Dispositivo já estava registrado",
                         udid |-> reqs[r].udid, alreadyRegistered |-> TRUE])]
        ELSE /\ registeredDevices' = registeredDevices
             /\ reqs' = [reqs EXCEPT ![r] =
                    Responded([@ EXCEPT !.outcome = o], 500,
                        [success |-> FALSE, error |-> "Erro ao registrar dispositivo",
                         details |-> error.message, stderr |-> error.stderr])]

\* The child process ends and the handler resumes.
RegisterExecDone(r, o) ==
    /\ reqs[r].pc = "awaitExec"
    /\ reqs[r].kind = "register"
    /\ o \in ExecOutcomes(RegisterToolRuns, RegisterOptions)
    /\ IF o.kind = "ok" THEN RegisterSucceeded(r, o) ELSE RegisterFailed(r, o)
    /\ UNCHANGED << pendingBuilds, now >>

(* ------------------------- POST /api/trigger-build -------------------- *)

TriggerOptions == [timeout |-> TriggerTimeout, maxBuffer |-> MaxBuffer]

\* The handler from its start to `await execAsync` or to an early return.
TriggerStart(r, udid) ==
    /\ CanStart(r)
    /\ LET q == Accepted("trigger", udid)
       IN  reqs' = [reqs EXCEPT ![r] =
               IF MissingUdid(udid)
               THEN Responded(q, 400,
                        [success |-> FALSE, error |-> "UDID é obrigatório"])
               ELSE IF udid \in DOMAIN pendingBuilds
               THEN LET buildInfo == pendingBuilds[udid]
                    IN  Responded(q, 200,
                            [success |-> TRUE, message |-> "Build já está em andamento",
                             buildId |-> buildInfo.buildId, status |-> buildInfo.status])
               ELSE Awaiting(q, TriggerCommand)]
    /\ UNCHANGED << registeredDevices, pendingBuilds, now >>

\* After the await, exit code 0: the rest of the inner try block.
TriggerSucceeded(r, o) ==
    LET buildId == ExtractBuildId(o.stdout)
    IN  /\ pendingBuilds' = MapSet(pendingBuilds, reqs[r].udid,
               [buildId |-> buildId, status |-> "pending", startedAt |-> now])
        /\ reqs' = [reqs EXCEPT ![r] =
               Responded([@ EXCEPT !.outcome = o], 200,
                   [success |-> TRUE, message |-> "Build disparado com sucesso",
                    buildId |-> buildId, status |-> "pending",
                    note |-> "O build pode levar alguns minutos. Você será notificado quando estiver pronto."])]

\* TriggerFailed that records the failed build in the table.
TriggerFailed_KeepsRecord(r, o) ==
    LET error == ExecError(reqs[r].command, o)
    IN  /\ pendingBuilds' = MapSet(pendingBuilds, reqs[r].udid,
               [buildId |-> << "unknown" >>, status |-> "failed", startedAt |-> now])
        /\ reqs' = [reqs EXCEPT ![r] =
               Responded([@ EXCEPT !.outcome = o], 500,
                   [success |-> FALSE, error |-> "Erro ao disparar build",
                    details |-> error.message, stderr |-> error.stderr])]

\* TriggerFailed that clears the device's entry (pendingBuilds.delete(udid)).
TriggerFailed_DeletesRecord(r, o) ==
    LET error == ExecError(reqs[r].command, o)
    IN  /\ pendingBuilds' = [k \in (DOMAIN pendingBuilds) \ { reqs[r].udid } |-> pendingBuilds[k]]
        /\ reqs' = [reqs EXCEPT ![r] =
               Responded([@ EXCEPT !.outcome = o], 500,
                   [success |-> FALSE, error |-> "Erro ao disparar build",
                    details |-> error.message, stderr |-> error.stderr])]

\* TriggerFailed that runs the build tool again instead of answering.
TriggerFailed_Retries(r, o) ==
    /\ pendingBuilds' = pendingBuilds
    /\ reqs' = [reqs EXCEPT ![r] = Awaiting(@, TriggerCommand)]

\* After the await, the promise rejected: the inner catch block.
TriggerFailed(r, o) ==
    LET error == ExecError(reqs[r].command, o)
    IN  /\ pendingBuilds' = pendingBuilds
        /\ reqs' = [reqs EXCEPT ![r] =
               Responded([@ EXCEPT !.outcome = o], 500,
                   [success |-> FALSE, error |-> "Erro ao disparar build",
                    details |-> error.message, stderr |-> error.stderr])]

\* TriggerExecDone that also enrolls the device once its build is queued.
TriggerExecDone_AddsDevice(r, o) ==
    /\ reqs[r].pc = "awaitExec"
    /\ reqs[r].kind = "trigger"
    /\ o \in ExecOutcomes(TriggerToolRuns, TriggerOptions)
    /\ IF o.kind = "ok"
       THEN /\ TriggerSucceeded(r, o)
            /\ registeredDevices' = registeredDevices \cup { reqs[r].udid }
       ELSE /\ TriggerFailed(r, o)
            /\ registeredDevices' = registeredDevices
    /\ UNCHANGED now

\* The child process ends and the handler resumes.
TriggerExecDone(r, o) ==
    /\ reqs[r].pc = "awaitExec"
    /\ reqs[r].kind = "trigger"
    /\ o \in ExecOutcomes(TriggerToolRuns, TriggerOptions)
    /\ IF o.kind = "ok" THEN TriggerSucceeded(r, o) ELSE TriggerFailed(r, o)
    /\ UNCHANGED << registeredDevices, now >>

(* ---------------------- GET /api/build-status/:udid ------------------- *)

\* StatusBody that answers with buildId and status only, as the
\* already-pending answer of trigger-build does.
StatusBody_NoStartedAt(builds, udid) ==
    IF udid \notin DOMAIN builds
    THEN [success |-> FALSE,
          message |-> "Nenhum build encontrado para este dispositivo"]
    ELSE LET buildInfo == builds[udid]
         IN  [success |-> TRUE, buildId |-> buildInfo.buildId,
              status |-> buildInfo.status]

\* The body of the status response.
StatusBody(builds, udid) ==
    IF udid \notin DOMAIN builds
    THEN [success |-> FALSE,
          message |-> "Nenhum build encontrado para este dispositivo"]
    ELSE LET buildInfo == builds[udid]
         IN  [success |-> TRUE, buildId |-> buildInfo.buildId,
              status |-> buildInfo.status, startedAt |-> buildInfo.startedAt]

\* The whole handler; the route parameter is a non-empty string.
BuildStatus(r, udid) ==
    /\ CanStart(r)
    /\ reqs' = [reqs EXCEPT ![r] =
           Responded(Accepted("status", udid), 200,
                     StatusBody(pendingBuilds, udid))]
    /\ UNCHANGED << registeredDevices, pendingBuilds, now >>

(* --------------------------- GET /manifest.plist ---------------------- *)

\* The five headers set before anything is sent.
ManifestHeaders ==
    [ContentType |-> "application/xml; charset=utf-8",
     CacheControl |-> "no-cache, no-store, must-revalidate",
     Pragma |-> "no-cache",
     Expires |-> "0",
     AccessControlAllowOrigin |-> "*"]

\* fs.readFileSync threw.
ReadError == << "<read error>" >>

\* What manifest.plist can hold.
ManifestContents ==
    { << "<plist>", "v1", "</plist>" >>, << "<plist>", "v2", "</plist>" >> }

\* What one request finds on disk: the result of fs.existsSync and, when the
\* file exists, the result of fs.readFileSync (nothing is read otherwise).
ManifestFiles ==
    { [exists |-> FALSE, read |-> Undefined] }
        \cup { [exists |-> TRUE, read |-> x] : x \in { ReadError } \cup ManifestContents }

\* ManifestResponse without the fs.existsSync test: a missing file is then
\* an error of the read.
ManifestResponse_NoExistsCheck(file) ==
    IF file.exists /\ file.read # ReadError
    THEN [status |-> 200, headers |-> ManifestHeaders, body |-> file.read]
    ELSE [status |-> 500, headers |-> ManifestHeaders,
          body |-> "Error reading manifest.plist"]

\* The response of the handler to what it finds on disk.
ManifestResponse(file) ==
    IF ~file.exists
    THEN [status |-> 404, headers |-> ManifestHeaders,
          body |-> "manifest.plist not found"]
    ELSE IF file.read # ReadError
    THEN [status |-> 200, headers |-> ManifestHeaders, body |-> file.read]
    ELSE [status |-> 500, headers |-> ManifestHeaders,
          body |-> "Error reading manifest.plist"]

\* The whole handler (it is synchronous).
Manifest(r, file) ==
    /\ CanStart(r)
    /\ reqs' = [reqs EXCEPT ![r] =
           [Accepted("manifest", Undefined) EXCEPT
                !.pc = "done", !.file = file, !.resp = ManifestResponse(file)]]
    /\ UNCHANGED << registeredDevices, pendingBuilds, now >>

(* ------------------------------ the clock ----------------------------- *)

Tick ==
    /\ now < MaxNow
    /\ now' = now + 1
    /\ UNCHANGED << registeredDevices, pendingBuilds, reqs >>

(* ---------------------------- specification --------------------------- *)

Next ==
    \/ \E r \in Req, udid \in UdidInputs, deviceName \in NameInputs :
           RegisterStart(r, udid, deviceName)
    \/ \E r \in Req, o \in RegisterToolRuns : RegisterExecDone(r, o)
    \/ \E r \in Req, udid \in UdidInputs : TriggerStart(r, udid)
    \/ \E r \in Req, o \in TriggerToolRuns : TriggerExecDone(r, o)
    \/ \E r \in Req, udid \in Udids : BuildStatus(r, udid)
    \/ \E r \in Req, file \in ManifestFiles : Manifest(r, file)
    \/ Tick

Spec == Init /\ [][Next]_vars

\* The timer that exec arms for options.timeout kills the child process of
\* request r, and the handler resumes with the rejection.
TimeoutFires(r) ==
    \/ RegisterExecDone(r, ExecOutcome("timeout", << >>, << >>))
    \/ TriggerExecDone(r, ExecOutcome("timeout", << >>, << >>))

\* The child process may never end by itself, but an armed timer does fire
\* and the event loop does run the handler's continuation.
FairSpec == Spec /\ \A r \in Req : WF_vars(TimeoutFires(r))

(* ------------------------ vocabulary of the claims -------------------- *)

\* Request r has received its response.
Done(r) == reqs[r].pc = "done"

\* Request r has received a success response (HTTP 200, success: true).
Succeeded(r) ==
    /\ Done(r)
    /\ reqs[r].resp.status = 200
    /\ reqs[r].resp.body.success

\* Request r is a register (trigger-build) request for identifier u.
IsRegister(r, u) == reqs[r].kind = "register" /\ reqs[r].udid = u

IsTrigger(r, u) == reqs[r].kind = "trigger" /\ reqs[r].udid = u

\* In this step request r is received and its handler runs its first stretch.
Starts(r) == reqs[r].pc = "idle" /\ reqs'[r].pc # "idle"

\* In this step the child process of request r ends and its handler resumes.
Resumes(r) == reqs[r].pc = "awaitExec" /\ reqs'[r].pc = "done"

\* In this step some handler starts a child process.
SomeExec == \E r \in Req : reqs'[r].execs > reqs[r].execs

\* The text of the external tool itself says the device is already known.
ToolReportsAlready(o) ==
    \/ Includes(o.stderr, AlreadyRegisteredText)
    \/ Includes(o.stderr, AlreadyExistsText)

(* ------------------------------- claims ------------------------------- *)

\* C1: when trigger-build is called twice in immediate succession for an
\* identifier that has no build record yet (the second request may arrive
\* while the first awaits its child process), the build tool is started at
\* most once in total and the second call returns the buildId of the first.
C1_TriggerTwiceInvokesOnce ==
    \A r1 \in Req, r2 \in Req, u \in Udids :
        ( /\ r2 = r1 + 1
          /\ IsTrigger(r1, u)
          /\ IsTrigger(r2, u)
          /\ reqs[r1].execs = 1 )
        => /\ reqs[r1].execs + reqs[r2].execs <= 1
           /\ ( Succeeded(r1) /\ Succeeded(r2)
                => reqs[r2].resp.body.buildId = reqs[r1].resp.body.buildId )

\* C2: once a trigger-build call for a device has returned success with a
\* buildId, the record stored for the device is never replaced: the table
\* keeps holding that buildId, with the status returned, for the device.
C2_RecordNeverReplaced ==
    \A r \in Req, u \in Udids :
        IsTrigger(r, u) /\ Succeeded(r)
        => /\ u \in DOMAIN pendingBuilds
           /\ pendingBuilds[u].buildId = reqs[r].resp.body.buildId
           /\ pendingBuilds[u].status = reqs[r].resp.body.status

\* C3 as stated: when register is called for an identifier for which an
\* earlier register call has already responded, the call starts no child
\* process, and both calls report success.
C3_RegisterTwiceBothSucceed ==
    [][ \A r1 \in Req, r2 \in Req, u \in Udids :
            ( /\ IsRegister(r1, u) /\ Done(r1)
              /\ Starts(r2) /\ reqs'[r2].kind = "register" /\ reqs'[r2].udid = u )
            => /\ reqs'[r2].execs = 0
               /\ Succeeded(r1)
               /\ reqs'[r2].pc = "done"
               /\ reqs'[r2].resp.status = 200
               /\ reqs'[r2].resp.body.success ]_vars

\* C3 as amended: when register is called for an identifier for which an
\* earlier register call has already responded with success, the call starts
\* no child process and reports success too.
C3_RegisterAfterSuccess ==
    [][ \A r1 \in Req, r2 \in Req, u \in Udids :
            ( /\ IsRegister(r1, u) /\ Succeeded(r1)
              /\ Starts(r2) /\ reqs'[r2].kind = "register" /\ reqs'[r2].udid = u )
            => /\ reqs'[r2].execs = 0
               /\ ~SomeExec
               /\ reqs'[r2].pc = "done"
               /\ reqs'[r2].resp.status = 200
               /\ reqs'[r2].resp.body.success ]_vars

\* C3 witness: a register call that ran the tool and succeeded, followed by
\* a second register call for the same identifier that succeeded without
\* starting a child process.
C3_Witness ==
    \E r1 \in Req, r2 \in Req, u \in Udids :
        /\ r1 < r2
        /\ IsRegister(r1, u) /\ Succeeded(r1) /\ reqs[r1].execs = 1
        /\ IsRegister(r2, u) /\ Succeeded(r2) /\ reqs[r2].execs = 0

\* C4: for every identifier, under any interleaving of register requests,
\* the enrollment tool runs to successful completion at most once.
C4_EnrollmentSucceedsOnce ==
    \A u \in Udids :
        Cardinality({ r \in Req : IsRegister(r, u) /\ reqs[r].outcome.kind = "ok" }) <= 1

\* C5: when the child process of a register or trigger-build call is killed
\* by its timeout, the call answers HTTP 500 and commits nothing: the
\* registered-device set and the build-record table stay as they were.
C5_TimeoutCommitsNothing ==
    [][ \A r \in Req :
            Resumes(r) /\ reqs'[r].outcome.kind = "timeout"
            => /\ reqs'[r].resp.status = 500
               /\ registeredDevices' = registeredDevices
               /\ pendingBuilds' = pendingBuilds ]_vars

\* C6: when the build tool fails, the trigger-build call answers HTTP 500
\* and the table is left as it was; and a trigger-build call received after
\* such a failure for the same device, while the table has no record for the
\* device, starts the build tool again.
C6_FailedTriggerCanBeRetried ==
    [][ \A r \in Req :
            /\ ( Resumes(r) /\ reqs[r].kind = "trigger" /\ reqs'[r].outcome.kind # "ok"
                 => /\ reqs'[r].resp.status = 500
                    /\ ~reqs'[r].resp.body.success
                    /\ pendingBuilds' = pendingBuilds )
            /\ \A r1 \in Req, u \in Udids :
                   ( /\ IsTrigger(r1, u) /\ Done(r1) /\ reqs[r1].resp.status = 500
                     /\ u \notin DOMAIN pendingBuilds
                     /\ Starts(r) /\ reqs'[r].kind = "trigger" /\ reqs'[r].udid = u )
                   => /\ reqs'[r].pc = "awaitExec"
                      /\ reqs'[r].execs = 1
                      /\ reqs'[r].command = TriggerCommand ]_vars

\* C6 witness: a trigger-build call failed with HTTP 500, the table has no
\* record for its device, and a later trigger-build call for the device has
\* started the build tool.
C6_Witness ==
    \E r1 \in Req, r2 \in Req, u \in Udids :
        /\ r1 < r2
        /\ IsTrigger(r1, u) /\ Done(r1) /\ reqs[r1].resp.status = 500
        /\ u \notin DOMAIN pendingBuilds
        /\ IsTrigger(r2, u) /\ reqs[r2].pc = "awaitExec" /\ reqs[r2].execs = 1

\* C7: a register or trigger-build request whose identifier is missing or
\* empty is answered HTTP 400 at once, starts no child process and leaves the
\* registered-device set and the build-record table unchanged.
C7_MissingUdidRejected ==
    [][ \A r \in Req :
            ( /\ Starts(r)
              /\ reqs'[r].kind \in { "register", "trigger" }
              /\ reqs'[r].udid \in { Undefined, << >> } )
            => /\ reqs'[r].pc = "done"
               /\ reqs'[r].resp.status = 400
               /\ ~reqs'[r].resp.body.success
               /\ ~SomeExec
               /\ registeredDevices' = registeredDevices
               /\ pendingBuilds' = pendingBuilds ]_vars

\* C7 witness: a request with a missing or empty identifier was answered 400
\* in a state where the set or the table is not empty.
C7_Witness ==
    \E r \in Req :
        /\ Done(r)
        /\ reqs[r].kind \in { "register", "trigger" }
        /\ reqs[r].udid \in { Undefined, << >> }
        /\ reqs[r].resp.status = 400
        /\ reqs[r].execs = 0
        /\ (registeredDevices # {} \/ DOMAIN pendingBuilds # {})

\* C8: the build-status query is a pure read.  It leaves the set and the
\* table unchanged and starts no child process; it answers HTTP 200, with
\* success=false exactly when the table has no record for the identifier,
\* and otherwise with success=true and the record's buildId, status and
\* startedAt as stored.
C8_StatusIsPureRead ==
    [][ \A r \in Req :
            Starts(r) /\ reqs'[r].kind = "status"
            => LET u == reqs'[r].udid
                   body == reqs'[r].resp.body
               IN  /\ registeredDevices' = registeredDevices
                   /\ pendingBuilds' = pendingBuilds
                   /\ ~SomeExec
                   /\ reqs'[r].pc = "done"
                   /\ reqs'[r].resp.status = 200
                   /\ (~body.success <=> u \notin DOMAIN pendingBuilds)
                   /\ ( u \in DOMAIN pendingBuilds
                        => /\ DOMAIN body = { "success", "buildId", "status", "startedAt" }
                           /\ body.buildId = pendingBuilds[u].buildId
                           /\ body.status = pendingBuilds[u].status
                           /\ body.startedAt = pendingBuilds[u].startedAt ) ]_vars

\* C8 witness: a status query answered with a stored record.
C8_Witness ==
    \E r \in Req :
        /\ reqs[r].kind = "status"
        /\ Succeeded(r)
        /\ reqs[r].udid \in DOMAIN pendingBuilds
        /\ reqs[r].resp.body.buildId = pendingBuilds[reqs[r].udid].buildId

\* C9: membership and records are monotonic: no step removes an identifier
\* from the registered-device set or an entry from the build-record table.
C9_Monotonic ==
    [][ /\ registeredDevices \subseteq registeredDevices'
        /\ DOMAIN pendingBuilds \subseteq DOMAIN pendingBuilds' ]_vars

\* C9 witness: a device with a build record, and another trigger-build call
\* for it that failed afterwards and left the record in place.
C9_Witness ==
    \E r1 \in Req, r2 \in Req, u \in Udids :
        /\ r1 # r2
        /\ IsTrigger(r1, u) /\ Succeeded(r1)
        /\ IsTrigger(r2, u) /\ Done(r2) /\ reqs[r2].resp.status = 500
        /\ u \in DOMAIN pendingBuilds

\* C10: an identifier enters the registered-device set only on confirmed or
\* inferred success: every member has a register call whose child process
\* exited with code 0, or failed with the tool's own output saying the
\* device is already registered / already exists; and a register call whose
\* child failed without the tool saying so is answered HTTP 500.
C10_RegisteredOnlyOnSuccess ==
    /\ \A u \in registeredDevices :
           \E r \in Req :
               /\ IsRegister(r, u)
               /\ \/ reqs[r].outcome.kind = "ok"
                  \/ /\ reqs[r].outcome.kind \in { "exit", "timeout", "maxbuf" }
                     /\ ToolReportsAlready(reqs[r].outcome)
    /\ \A r \in Req :
           ( /\ reqs[r].kind = "register"
             /\ reqs[r].outcome.kind \in { "exit", "timeout", "maxbuf" }
             /\ ~ToolReportsAlready(reqs[r].outcome) )
           => reqs[r].resp.status = 500

\* C11: the manifest request has exactly one of three outcomes, decided by
\* the file: 404 with a text body when the file is absent, 500 with a text
\* body when it exists but cannot be read, and otherwise the content of the
\* file as read on this request, with the five required headers.  The
\* handler always responds and changes no shared state.
C11_ManifestOutcomes ==
    [][ \A r \in Req :
            Starts(r) /\ reqs'[r].kind = "manifest"
            => LET file == reqs'[r].file
                   resp == reqs'[r].resp
               IN  /\ reqs'[r].pc = "done"
                   /\ registeredDevices' = registeredDevices
                   /\ pendingBuilds' = pendingBuilds
                   /\ ~SomeExec
                   /\ resp.status \in { 200, 404, 500 }
                   /\ (resp.status = 404 <=> ~file.exists)
                   /\ (resp.status = 500 <=> file.exists /\ file.read = ReadError)
                   /\ (resp.status = 404 => resp.body = "manifest.plist not found")
                   /\ (resp.status = 500 => resp.body = "Error reading manifest.plist")
                   /\ ( resp.status = 200
                        => /\ resp.body = file.read
                           /\ resp.body \in ManifestContents
                           /\ resp.headers =
                                  [ContentType |-> "application/xml; charset=utf-8",
                                   CacheControl |-> "no-cache, no-store, must-revalidate",
                                   Pragma |-> "no-cache",
                                   Expires |-> "0",
                                   AccessControlAllowOrigin |-> "*"] ) ]_vars

\* C11 witness: two manifest requests served with different contents (the
\* file changed in between and was read again).
C11_Witness ==
    \E r1 \in Req, r2 \in Req :
        /\ r1 < r2
        /\ reqs[r1].kind = "manifest" /\ reqs[r1].resp.status = 200
        /\ reqs[r2].kind = "manifest" /\ reqs[r2].resp.status = 200
        /\ reqs[r1].resp.body # reqs[r2].resp.body

\* C12: a register call that finds its identifier in the registered-device
\* set answers success with alreadyRegistered=true at once, starts no child
\* process and leaves the set and the build-record table unchanged.
C12_AlreadyRegisteredShortCircuit ==
    [][ \A r \in Req :
            ( /\ Starts(r)
              /\ reqs'[r].kind = "register"
              /\ reqs'[r].udid \in registeredDevices )
            => /\ reqs'[r].pc = "done"
               /\ reqs'[r].resp.status = 200
               /\ reqs'[r].resp.body.success
               /\ "alreadyRegistered" \in DOMAIN reqs'[r].resp.body
               /\ reqs'[r].resp.body.alreadyRegistered
               /\ reqs'[r].resp.body.udid = reqs'[r].udid
               /\ reqs'[r].execs = 0
               /\ ~SomeExec
               /\ registeredDevices' = registeredDevices
               /\ pendingBuilds' = pendingBuilds ]_vars

\* C12 witness: a register call answered alreadyRegistered=true without a
\* child process, for an identifier in the set.
C12_Witness ==
    \E r \in Req :
        /\ reqs[r].kind = "register"
        /\ Succeeded(r)
        /\ reqs[r].execs = 0
        /\ "alreadyRegistered" \in DOMAIN reqs[r].resp.body
        /\ reqs[r].udid \in registeredDevices

\* The number of child processes started by the requests of S.
RECURSIVE ExecsOf(_)
ExecsOf(S) ==
    IF S = {} THEN 0
    ELSE LET r == CHOOSE x \in S : TRUE
         IN  reqs[r].execs + ExecsOf(S \ { r })

\* The register and trigger-build requests received with an identifier.
AcceptedCalls ==
    { r \in Req : /\ reqs[r].kind \in { "register", "trigger" }
                  /\ reqs[r].udid \notin { Undefined, << >> } }

\* C13: every register or trigger-build request starts the external tool at
\* most once, also after a failure or a timeout, and no other request starts
\* it: the number of child processes never exceeds the number of accepted
\* register and trigger-build requests.
C13_AtMostOneExecPerCall ==
    /\ \A r \in Req : reqs[r].execs <= 1
    /\ \A r \in Req : reqs[r].execs > 0 => r \in AcceptedCalls
    /\ ExecsOf(Req) <= Cardinality(AcceptedCalls)

\* C13 witness: a call whose child process failed or timed out has been
\* answered, having started one child process.
C13_Witness ==
    \E r \in Req :
        /\ Done(r)
        /\ reqs[r].outcome.kind \in { "exit", "timeout" }
        /\ reqs[r].resp.status = 500
        /\ reqs[r].execs = 1

\* C14: every accepted register or trigger-build request eventually gets
\* its response, 200 or 500, even if the external tool never exits by
\* itself (the timeout ends the wait), and gets exactly one: a response,
\* once sent, never changes.
C14_EveryCallAnswered ==
    /\ \A r \in Req :
           (reqs[r].pc = "awaitExec")
               ~> (reqs[r].pc = "done" /\ reqs[r].resp.status \in { 200, 500 })
    /\ [][ \A r \in Req : Done(r) => reqs'[r] = reqs[r] ]_vars

\* C14 witness: a call was answered 500 after its child process was killed
\* by the timeout, while an earlier call is still waiting for its own child
\* process.
C14_Witness ==
    \E r1 \in Req, r2 \in Req :
        /\ r1 < r2
        /\ reqs[r1].pc = "awaitExec"
        /\ Done(r2)
        /\ reqs[r2].outcome.kind = "timeout"
        /\ reqs[r2].resp.status = 500

\* The build identifier that each output of the build tool announces: the
\* run of letters, digits and hyphens after "build ID: " (in any case), or
\* 'unknown' when the output announces none.
AnnouncedBuildId(stdout) ==
    CASE stdout = << "Build", "ID:", "7f3a-22" >> -> << "7f3a-22" >>
      [] stdout = << "queued", "build", "id:", "b2.", "done" >> -> << "b2" >>
      [] OTHER -> << "unknown" >>

\* C15: every entry of the build-record table has status 'pending' and the
\* buildId announced by the output of a build tool run that exited with
\* code 0 and was started by a trigger-build request for the same
\* identifier ('unknown' when that output announces none); no identifier
\* has a record without such a run.
C15_RecordsComeFromSuccessfulBuilds ==
    \A u \in DOMAIN pendingBuilds :
        /\ u \in Udids
        /\ pendingBuilds[u].status = "pending"
        /\ \E r \in Req :
               /\ IsTrigger(r, u)
               /\ reqs[r].execs = 1
               /\ reqs[r].outcome.kind = "ok"
               /\ pendingBuilds[u].buildId = AnnouncedBuildId(reqs[r].outcome.stdout)

\* C15 witness: the table holds an identifier taken from the tool's output
\* for one device and the sentinel 'unknown' for another.
C15_Witness ==
    \E u1 \in DOMAIN pendingBuilds, u2 \in DOMAIN pendingBuilds :
        /\ pendingBuilds[u1].buildId = << "7f3a-22" >>
        /\ pendingBuilds[u2].buildId = << "unknown" >>

\* C16: each collection is changed only by its own route: no step of a
\* register request changes the build-record table, and no step of a
\* trigger-build request changes the registered-device set.
C16_OwnersOnly ==
    [][ \A r \in Req :
            /\ ( (Starts(r) \/ Resumes(r)) /\ reqs'[r].kind = "register"
                 => pendingBuilds' = pendingBuilds )
            /\ ( (Starts(r) \/ Resumes(r)) /\ reqs'[r].kind = "trigger"
                 => registeredDevices' = registeredDevices ) ]_vars

\* C16 witness: a register call and a trigger-build call have both run their
\* tool and succeeded; the set holds the one's identifier and the table the
\* other's.
C16_Witness ==
    \E r1 \in Req, r2 \in Req :
        /\ reqs[r1].kind = "register" /\ Succeeded(r1) /\ reqs[r1].execs = 1
        /\ reqs[r2].kind = "trigger" /\ Succeeded(r2) /\ reqs[r2].execs = 1
        /\ reqs[r1].udid \in registeredDevices
        /\ reqs[r2].udid \in DOMAIN pendingBuilds
        /\ reqs[r2].udid \notin registeredDevices

\* C17: the device is registered before its build is generated: the build
\* tool has been started for an identifier, and the table has a record for
\* it, only if the identifier is in the registered-device set.
C17_RegisteredBeforeBuild ==
    /\ \A r \in Req :
           reqs[r].kind = "trigger" /\ reqs[r].execs > 0
           => reqs[r].udid \in registeredDevices
    /\ \A u \in DOMAIN pendingBuilds : u \in registeredDevices

\* C18: responses agree with the committed state: the identifier of every
\* register call answered with success is in the registered-device set, and
\* the identifier of every trigger-build call answered with success has an
\* entry in the build-record table, from the answer on.
C18_SuccessMeansCommitted ==
    \A r \in Req :
        /\ ( reqs[r].kind = "register" /\ Succeeded(r)
             => reqs[r].udid \in registeredDevices )
        /\ ( reqs[r].kind = "trigger" /\ Succeeded(r)
             => reqs[r].udid \in DOMAIN pendingBuilds )

\* C18 witness: a register call answered with the inferred success (the tool
\* failed saying the device is already registered), its identifier in the
\* set, and a later call answered after it.
C18_Witness ==
    \E r1 \in Req, r2 \in Req :
        /\ r1 # r2
        /\ reqs[r1].kind = "register" /\ Succeeded(r1)
        /\ reqs[r1].outcome.kind = "exit"
        /\ reqs[r1].udid \in registeredDevices
        /\ Done(r2) /\ reqs[r2].kind = "trigger" /\ Succeeded(r2)
        /\ reqs[r2].udid \in DOMAIN pendingBuilds

====
